---- MODULE Spec2Model ----
(***************************************************************************)
(* City trip planner (estonia_workshop/app.py).                            *)
(*                                                                         *)
(* generate_itinerary is modelled as a sequence of steps, one per          *)
(* blocking external call (directory test, index load, page fetch, LLM     *)
(* extraction, index construction, persist, agent step, itinerary parse).  *)
(* Every external call either returns or raises; a raise is not caught     *)
(* anywhere in app.py, so it ends the request.                             *)
(*                                                                         *)
(* Spec     : one request at a time (a single Streamlit session).          *)
(* SpecRace : two requests interleaved on the same index directory.        *)
(***************************************************************************)
EXTENDS Integers, Sequences, FiniteSets, TLC

\* ------------------------------------------------------------------ bounds
\* Number of requests issued in one behaviour.
MaxRequests == 3
\* Reasoning steps the agent may take before it gives up; stands for
\* max_iterations=100 of ReActAgent.from_tools (app.py:170).
MaxIterations == 2

\* --------------------------------------------------------- program constants
\* cities (app.py:20-32)
cities ==
    [Talinn |->
        [wiki_pages |-> <<"Tallinn", "Estonia">>,
         web_pages  |-> <<"whichmuseum.com", "visiting.europarl.europa.eu",
                          "www.visittallinn.ee">>]]

CityNames == DOMAIN cities

\* group_types (app.py:34-38)
group_types ==
    <<"Family with Kids", "Group of nerdy Python Developers", "Bachelor party">>

\* range(24) of the two time select boxes (app.py:203, 209)
HoursInDay == 24

\* f"{i}:00" (app.py:203, 209): the label of hour i, as the pair (hour, minutes)
HourLabel(h) == <<h, "00">>

\* the options of the start_time / end_time select boxes
TimeOptions == [h \in 0..(HoursInDay - 1) |-> HourLabel(h)]

\* index=8 and index=17 (app.py:204, 210): the preselected options
DefaultStartIndex == 8
DefaultEndIndex == 17

\* city.lower() (app.py:115)
Lower(city) == CASE city = "Talinn" -> "talinn"
                 [] OTHER -> city

\* Path(f"./index_{city.lower()}/") (app.py:115)
index_dir_name(city) == <<"./index_", Lower(city), "/">>

IndexDirs == {index_dir_name(c) : c \in CityNames}

\* ------------------------------------------------------ external capabilities
\* An Attraction (app.py:41-48) the LLM extraction may find on a page: the
\* same place on every page, described in the page's own words
Attraction(page) == [name |-> "Old Town", description |-> page]

\* The lists output.attractions may hold for one page (app.py:87-88)
ExtractOutputs(page) == {<< >>, <<Attraction(page)>>}

\* ItineraryStop records (app.py:56-68)
StopA == [time_arrival |-> "08:00", time_end |-> "12:00",
          name |-> "Old Town", description |-> "walk"]
StopB == [time_arrival |-> "12:00", time_end |-> "17:00",
          name |-> "Kumu", description |-> "exhibition"]

\* The lists output.stops may hold (app.py:183-184)
StopOutputs == {<< >>, <<StopA, StopB>>}

\* Final free-text answers of the agent (app.py:171)
AgentAnswers == {"answer1", "answer2"}

None == "None"

\* TextNode(text=f"{p.name} - {p.description}") (app.py:123)
TextNode(p) == [text |-> <<p.name, " - ", p.description>>]

\* [TextNode(...) for p in all_attractions] (app.py:123)
RECURSIVE places_nodes(_)
places_nodes(attractions) ==
    IF attractions = << >> THEN << >>
    ELSE <<TextNode(Head(attractions))>> \o places_nodes(Tail(attractions))

\* VectorStoreIndex(places_nodes) (app.py:124): the index holds the nodes
VectorStoreIndex(nodes) == nodes

\* check_opening_hours_tomorrow (app.py:128-133)
check_opening_hours_tomorrow(place_name) == TRUE

Procs == {1, 2}
\* the thread of a single-user session
MainProc == 1


\* ------------------------------------------------------------------- state
VARIABLES
    store,            \* index directory -> [state, content] on disk
    pc,               \* position of each request in generate_itinerary
    req,              \* arguments of generate_itinerary
    src_i,            \* position of the for loop over wiki_pages / web_pages
    all_attractions,  \* accumulator of get_attractions
    places_index,     \* the loaded or built index
    iterations,       \* reasoning steps the agent has taken
    agent_response,   \* agent.chat(agent_prompt).response
    itinerary,        \* value returned by generate_itinerary
    err,              \* the exception that ended the request
    hist,             \* per request: what the request has done so far
    prev,             \* per process: how its previous request ended
    nreq,             \* requests started
    last_writer       \* process of the latest successful persist

vars == <<store, pc, req, src_i, all_attractions, places_index, iterations,
          agent_response, itinerary, err, hist, prev, nreq, last_writer>>

Absent == [state |-> "absent", content |-> << >>]

NoErr == [kind |-> None, at |-> None, i |-> 0]

\* nothing done yet in this request
NoHist ==
    [hit        |-> None,    \* index_dir_name.exists(): None, "hit" or "miss"
     at_start   |-> Absent,  \* the city's store when the request started
     fetches    |-> 0,       \* page fetches attempted
     extractions|-> 0,       \* gen_attractions calls attempted
     results    |-> << >>,   \* what each gen_attractions call returned
     persisted  |-> FALSE,   \* persist() returned
     agent_done |-> FALSE,   \* agent.chat() returned
     parses     |-> 0,       \* TravelItinerary program calls attempted
     parsed     |-> << >>,   \* outputs of the TravelItinerary program
     failures   |-> 0]       \* external calls that raised

\* no request yet
NoReq == [city |-> None, group_type |-> None, start_time |-> << >>, end_time |-> << >>]

\* generate_itinerary has not returned
NotReturned == [returned |-> FALSE, stops |-> << >>]

NoPrev ==
    [outcome        |-> "idle",  \* pc at the end of the previous request
     hit            |-> None,    \* its hist.hit
     persisted      |-> FALSE,   \* its hist.persisted
     cache_returned |-> FALSE,   \* its cache step returned an index
     index          |-> << >>,   \* the index its cache step returned
     used_tools     |-> FALSE,   \* its agent answered after calling tools
     err            |-> NoErr]   \* the exception that ended it

Init ==
    /\ store = [d \in IndexDirs |-> Absent]
    /\ pc = [p \in Procs |-> "idle"]
    /\ req = [p \in Procs |-> NoReq]
    /\ src_i = [p \in Procs |-> 0]
    /\ all_attractions = [p \in Procs |-> << >>]
    /\ places_index = [p \in Procs |-> << >>]
    /\ iterations = [p \in Procs |-> 0]
    /\ agent_response = [p \in Procs |-> None]
    /\ itinerary = [p \in Procs |-> NotReturned]
    /\ err = [p \in Procs |-> NoErr]
    /\ hist = [p \in Procs |-> NoHist]
    /\ prev = [p \in Procs |-> NoPrev]
    /\ nreq = 0
    /\ last_writer = 0

Dir(p) == index_dir_name(req[p].city)

wiki_pages(p) == cities[req[p].city].wiki_pages
web_pages(p) == cities[req[p].city].web_pages

\* the cache step of the request returned places_index (app.py:115-126)
CacheReturned(p) ==
    \/ pc[p] \in {"agent", "parse", "done"}
    \/ pc[p] = "failed" /\ err[p].at \in {"agent", "parse"}

\* an uncaught exception of kind k leaves generate_itinerary
Raise(p, k) ==
    /\ pc' = [pc EXCEPT ![p] = "failed"]
    /\ err' = [err EXCEPT ![p] = [kind |-> k, at |-> pc[p], i |-> src_i[p]]]

\* agent_prompt (app.py:158-168)
agent_prompt(r) ==
    <<"Generate complete travel itinerary, starting at", r.start_time,
      "and ending at", r.end_time, "to a single day trip to", r.city,
      "Trip is prepared for", r.group_type,
      "Ensure activities start at", r.start_time,
      "Ensure activities are planned until", r.end_time>>

\* generate_itinerary as it would be with a check of the time window: a
\* request whose start_time is not before its end_time is rejected
generate_itineraryChecked(p, city, group_type, start_time, end_time) ==
    /\ pc[p] \in {"idle", "done", "failed"}
    /\ nreq < MaxRequests
    /\ nreq' = nreq + 1
    /\ req' = [req EXCEPT ![p] = [city |-> city, group_type |-> group_type,
                                  start_time |-> start_time, end_time |-> end_time]]
    /\ IF start_time[1] >= end_time[1]
       THEN /\ pc' = [pc EXCEPT ![p] = "failed"]
            /\ err' = [err EXCEPT ![p] = [kind |-> "window", at |-> "start", i |-> 0]]
       ELSE /\ pc' = [pc EXCEPT ![p] = "exists"]
            /\ err' = [err EXCEPT ![p] = NoErr]
    /\ src_i' = [src_i EXCEPT ![p] = 0]
    /\ all_attractions' = [all_attractions EXCEPT ![p] = << >>]
    /\ places_index' = [places_index EXCEPT ![p] = << >>]
    /\ iterations' = [iterations EXCEPT ![p] = 0]
    /\ agent_response' = [agent_response EXCEPT ![p] = None]
    /\ itinerary' = [itinerary EXCEPT ![p] = NotReturned]
    /\ hist' = [hist EXCEPT ![p] =
                  [NoHist EXCEPT !.at_start = store[index_dir_name(city)]]]
    /\ prev' = [prev EXCEPT ![p] =
                  [outcome |-> pc[p], hit |-> hist[p].hit,
                   persisted |-> hist[p].persisted,
                   cache_returned |-> CacheReturned(p),
                   index |-> IF CacheReturned(p) THEN places_index[p] ELSE << >>,
                   used_tools |-> hist[p].agent_done /\ iterations[p] > 1,
                   err |-> err[p]]]
    /\ UNCHANGED <<store, last_writer>>

\* main (app.py:212-213): the button calls generate_itinerary with the form values
generate_itinerary(p, city, group_type, start_time, end_time) ==
    /\ pc[p] \in {"idle", "done", "failed"}
    /\ nreq < MaxRequests
    /\ nreq' = nreq + 1
    /\ req' = [req EXCEPT ![p] = [city |-> city, group_type |-> group_type,
                                  start_time |-> start_time, end_time |-> end_time]]
    /\ pc' = [pc EXCEPT ![p] = "exists"]
    /\ src_i' = [src_i EXCEPT ![p] = 0]
    /\ all_attractions' = [all_attractions EXCEPT ![p] = << >>]
    /\ places_index' = [places_index EXCEPT ![p] = << >>]
    /\ iterations' = [iterations EXCEPT ![p] = 0]
    /\ agent_response' = [agent_response EXCEPT ![p] = None]
    /\ itinerary' = [itinerary EXCEPT ![p] = NotReturned]
    /\ err' = [err EXCEPT ![p] = NoErr]
    /\ hist' = [hist EXCEPT ![p] =
                  [NoHist EXCEPT !.at_start = store[index_dir_name(city)]]]
    /\ prev' = [prev EXCEPT ![p] =
                  [outcome |-> pc[p], hit |-> hist[p].hit,
                   persisted |-> hist[p].persisted,
                   cache_returned |-> CacheReturned(p),
                   index |-> IF CacheReturned(p) THEN places_index[p] ELSE << >>,
                   used_tools |-> hist[p].agent_done /\ iterations[p] > 1,
                   err |-> err[p]]]
    /\ UNCHANGED <<store, last_writer>>

\* where get_attractions goes once the wiki loop is over
AfterWikiLoop(p) == IF Len(web_pages(p)) > 0 THEN "web_fetch" ELSE "index"

\* where get_attractions starts
FirstStep(p) == IF Len(wiki_pages(p)) > 0 THEN "wiki_fetch" ELSE AfterWikiLoop(p)

\* Exists as it would be if the test never found the directory
ExistsAlwaysMiss(p) ==
    /\ pc[p] = "exists"
    /\ pc' = [pc EXCEPT ![p] = FirstStep(p)]
    /\ hist' = [hist EXCEPT ![p].hit = "miss"]
    /\ src_i' = [src_i EXCEPT ![p] = 1]
    /\ UNCHANGED <<store, req, all_attractions, places_index, iterations,
                   agent_response, itinerary, err, prev, nreq, last_writer>>

\* if index_dir_name.exists() (app.py:116)
Exists(p) ==
    /\ pc[p] = "exists"
    /\ IF store[Dir(p)].state # "absent"
       THEN /\ pc' = [pc EXCEPT ![p] = "load"]
            /\ hist' = [hist EXCEPT ![p].hit = "hit"]
            /\ UNCHANGED src_i
       ELSE /\ pc' = [pc EXCEPT ![p] = FirstStep(p)]
            /\ hist' = [hist EXCEPT ![p].hit = "miss"]
            /\ src_i' = [src_i EXCEPT ![p] = 1]
    /\ UNCHANGED <<store, req, all_attractions, places_index, iterations,
                   agent_response, itinerary, err, prev, nreq, last_writer>>

\* load_index_from_storage returns what the directory holds (app.py:117-119)
Load(p) ==
    /\ pc[p] = "load"
    /\ places_index' = [places_index EXCEPT ![p] = store[Dir(p)].content]
    /\ pc' = [pc EXCEPT ![p] = "agent"]
    /\ UNCHANGED <<store, req, src_i, all_attractions, iterations,
                   agent_response, itinerary, err, hist, prev, nreq, last_writer>>

\* load_index_from_storage raises (unreadable or incomplete directory)
LoadFail(p) ==
    /\ pc[p] = "load"
    /\ Raise(p, "load")
    /\ hist' = [hist EXCEPT ![p].failures = @ + 1]
    /\ UNCHANGED <<store, req, src_i, all_attractions, places_index, iterations,
                   agent_response, itinerary, prev, nreq, last_writer>>

\* wikipedia.page(wiki_page).content returns (app.py:99)
FetchWiki(p) ==
    /\ pc[p] = "wiki_fetch"
    /\ pc' = [pc EXCEPT ![p] = "wiki_extract"]
    /\ hist' = [hist EXCEPT ![p].fetches = @ + 1]
    /\ UNCHANGED <<store, req, src_i, all_attractions, places_index, iterations,
                   agent_response, itinerary, err, prev, nreq, last_writer>>

\* wikipedia.page raises (app.py:99)
FetchWikiFail(p) ==
    /\ pc[p] = "wiki_fetch"
    /\ Raise(p, "fetch")
    /\ hist' = [hist EXCEPT ![p].fetches = @ + 1, ![p].failures = @ + 1]
    /\ UNCHANGED <<store, req, src_i, all_attractions, places_index, iterations,
                   agent_response, itinerary, prev, nreq, last_writer>>

\* SimpleWebPageReader(...).load_data([web_page])[0].text returns (app.py:104-106)
FetchWeb(p) ==
    /\ pc[p] = "web_fetch"
    /\ pc' = [pc EXCEPT ![p] = "web_extract"]
    /\ hist' = [hist EXCEPT ![p].fetches = @ + 1]
    /\ UNCHANGED <<store, req, src_i, all_attractions, places_index, iterations,
                   agent_response, itinerary, err, prev, nreq, last_writer>>

\* FetchWebFail as it would be with a retry: the exception is swallowed and
\* the same page is fetched again
FetchWebFailRetry(p) ==
    /\ pc[p] = "web_fetch"
    /\ hist' = [hist EXCEPT ![p].fetches = @ + 1, ![p].failures = @ + 1]
    /\ UNCHANGED <<store, pc, req, src_i, all_attractions, places_index, iterations,
                   agent_response, itinerary, err, prev, nreq, last_writer>>

\* SimpleWebPageReader raises (app.py:104-106)
FetchWebFail(p) ==
    /\ pc[p] = "web_fetch"
    /\ Raise(p, "fetch")
    /\ hist' = [hist EXCEPT ![p].fetches = @ + 1, ![p].failures = @ + 1]
    /\ UNCHANGED <<store, req, src_i, all_attractions, places_index, iterations,
                   agent_response, itinerary, prev, nreq, last_writer>>

\* Accumulate as it would be if records were deduplicated by name
AccumulateDedup(acc, attractions) ==
    acc \o SelectSeq(attractions,
                     LAMBDA a : \A k \in 1..Len(acc) : acc[k].name # a.name)

\* all_attractions += gen_attractions(...) (app.py:100, 107)
Accumulate(acc, attractions) == acc \o attractions

\* the loop step after the page at position src_i of the current loop
NextStep(p) ==
    IF pc[p] = "wiki_extract"
    THEN IF src_i[p] < Len(wiki_pages(p))
         THEN [pc |-> "wiki_fetch", i |-> src_i[p] + 1]
         ELSE [pc |-> AfterWikiLoop(p), i |-> 1]
    ELSE IF src_i[p] < Len(web_pages(p))
         THEN [pc |-> "web_fetch", i |-> src_i[p] + 1]
         ELSE [pc |-> "index", i |-> src_i[p]]

\* the page the current loop is at
CurrentPage(p) ==
    IF pc[p] \in {"wiki_fetch", "wiki_extract"}
    THEN wiki_pages(p)[src_i[p]]
    ELSE web_pages(p)[src_i[p]]

\* gen_attractions returns output.attractions (app.py:77-88, 100, 107)
gen_attractions(p) ==
    /\ pc[p] \in {"wiki_extract", "web_extract"}
    /\ \E attractions \in ExtractOutputs(CurrentPage(p)) :
          /\ all_attractions' =
                [all_attractions EXCEPT ![p] = Accumulate(@, attractions)]
          /\ hist' = [hist EXCEPT ![p].extractions = @ + 1,
                                  ![p].results = Append(@, attractions)]
    /\ pc' = [pc EXCEPT ![p] = NextStep(p).pc]
    /\ src_i' = [src_i EXCEPT ![p] = NextStep(p).i]
    /\ UNCHANGED <<store, req, places_index, iterations,
                   agent_response, itinerary, err, prev, nreq, last_writer>>

\* gen_attractionsFail as it would be if the records gathered so far were
\* saved before the exception leaves
gen_attractionsFailSaving(p) ==
    /\ pc[p] \in {"wiki_extract", "web_extract"}
    /\ Raise(p, "schema")
    /\ store' = [store EXCEPT ![Dir(p)] =
                   [state |-> "complete",
                    content |-> places_nodes(all_attractions[p])]]
    /\ hist' = [hist EXCEPT ![p].extractions = @ + 1, ![p].failures = @ + 1]
    /\ UNCHANGED <<req, src_i, all_attractions, places_index, iterations,
                   agent_response, itinerary, prev, nreq, last_writer>>

\* the program call of gen_attractions raises: the LLM output does not
\* validate against AttractionsInCity (app.py:87)
gen_attractionsFail(p) ==
    /\ pc[p] \in {"wiki_extract", "web_extract"}
    /\ Raise(p, "schema")
    /\ hist' = [hist EXCEPT ![p].extractions = @ + 1, ![p].failures = @ + 1]
    /\ UNCHANGED <<store, req, src_i, all_attractions, places_index, iterations,
                   agent_response, itinerary, prev, nreq, last_writer>>

\* places_nodes and VectorStoreIndex(places_nodes) (app.py:123-124)
BuildIndex(p) ==
    /\ pc[p] = "index"
    /\ places_index' =
          [places_index EXCEPT ![p] = VectorStoreIndex(places_nodes(all_attractions[p]))]
    /\ pc' = [pc EXCEPT ![p] = "persist"]
    /\ UNCHANGED <<store, req, src_i, all_attractions, iterations,
                   agent_response, itinerary, err, hist, prev, nreq, last_writer>>

\* VectorStoreIndex raises while embedding the nodes (app.py:124)
BuildIndexFail(p) ==
    /\ pc[p] = "index"
    /\ Raise(p, "embedding")
    /\ hist' = [hist EXCEPT ![p].failures = @ + 1]
    /\ UNCHANGED <<store, req, src_i, all_attractions, places_index, iterations,
                   agent_response, itinerary, prev, nreq, last_writer>>

\* what a directory holds after a persist of index that returned
Persisted(index) == [state |-> "complete", content |-> index]

\* what a directory may hold after a persist of index that raised part-way:
\* the directory exists and holds some of the nodes
PartlyWritten(index) ==
    {[state |-> "partial", content |-> SubSeq(index, 1, k)] : k \in 0..Len(index)}

\* Persist as it would be if an existing directory were left as it is
PersistIfAbsent(p) ==
    /\ pc[p] = "persist"
    /\ store' = [store EXCEPT ![Dir(p)] =
                   IF @.state = "absent" THEN [state |-> "complete",
                                               content |-> places_index[p]]
                   ELSE @]
    /\ last_writer' = p
    /\ hist' = [hist EXCEPT ![p].persisted = TRUE]
    /\ pc' = [pc EXCEPT ![p] = "agent"]
    /\ UNCHANGED <<req, src_i, all_attractions, places_index, iterations,
                   agent_response, itinerary, err, prev, nreq>>

\* Persist as it would be if the write were put off until after the agent ran
PersistDeferred(p) ==
    /\ pc[p] = "persist"
    /\ hist' = [hist EXCEPT ![p].persisted = TRUE]
    /\ pc' = [pc EXCEPT ![p] = "agent"]
    /\ UNCHANGED <<store, req, src_i, all_attractions, places_index, iterations,
                   agent_response, itinerary, err, prev, nreq, last_writer>>

\* places_index.storage_context.persist(persist_dir=index_dir_name) returns
\* (app.py:126); an existing directory is written over
Persist(p) ==
    /\ pc[p] = "persist"
    /\ store' = [store EXCEPT ![Dir(p)] = Persisted(places_index[p])]
    /\ last_writer' = p
    /\ hist' = [hist EXCEPT ![p].persisted = TRUE]
    /\ pc' = [pc EXCEPT ![p] = "agent"]
    /\ UNCHANGED <<req, src_i, all_attractions, places_index, iterations,
                   agent_response, itinerary, err, prev, nreq>>

\* persist raises (app.py:126): before anything was written, or after the
\* directory was created and some of its files written; nothing cleans up
PersistFail(p) ==
    /\ pc[p] = "persist"
    /\ \/ UNCHANGED store
       \/ \E d \in PartlyWritten(places_index[p]) :
             store' = [store EXCEPT ![Dir(p)] = d]
    /\ Raise(p, "persist")
    /\ hist' = [hist EXCEPT ![p].failures = @ + 1]
    /\ UNCHANGED <<req, src_i, all_attractions, places_index, iterations,
                   agent_response, itinerary, prev, nreq, last_writer>>

\* one reasoning step of agent.chat that calls a tool (app.py:141-156, 171):
\* city_places_list or check_opening_hours_tomorrow
AgentToolCall(p) ==
    /\ pc[p] = "agent"
    /\ iterations[p] < MaxIterations
    /\ \E tool \in {"city_places_list", "check_opening_hours_tomorrow"} :
          tool = "check_opening_hours_tomorrow"
              => check_opening_hours_tomorrow(req[p].city)
    /\ iterations' = [iterations EXCEPT ![p] = @ + 1]
    /\ UNCHANGED <<store, pc, req, src_i, all_attractions, places_index,
                   agent_response, itinerary, err, hist, prev, nreq, last_writer>>

\* the reasoning step that gives the final answer:
\* agent_response = agent.chat(agent_prompt).response (app.py:171)
AgentAnswer(p) ==
    /\ pc[p] = "agent"
    /\ iterations[p] < MaxIterations
    /\ \E answer \in AgentAnswers :
          agent_response' = [agent_response EXCEPT ![p] = answer]
    /\ iterations' = [iterations EXCEPT ![p] = @ + 1]
    /\ hist' = [hist EXCEPT ![p].agent_done = TRUE]
    /\ pc' = [pc EXCEPT ![p] = "parse"]
    /\ UNCHANGED <<store, req, src_i, all_attractions, places_index,
                   itinerary, err, prev, nreq, last_writer>>

\* AgentFail as it would be if a failed request removed the directory
AgentFailCleanup(p) ==
    /\ pc[p] = "agent"
    /\ iterations[p] = MaxIterations
    /\ Raise(p, "reasoning")
    /\ store' = [store EXCEPT ![Dir(p)] = Absent]
    /\ hist' = [hist EXCEPT ![p].failures = @ + 1]
    /\ UNCHANGED <<req, src_i, all_attractions, places_index, iterations,
                   agent_response, itinerary, prev, nreq, last_writer>>

\* agent.chat raises: max_iterations steps without a final answer (app.py:170-171)
AgentFail(p) ==
    /\ pc[p] = "agent"
    /\ iterations[p] = MaxIterations
    /\ Raise(p, "reasoning")
    /\ hist' = [hist EXCEPT ![p].failures = @ + 1]
    /\ UNCHANGED <<store, req, src_i, all_attractions, places_index, iterations,
                   agent_response, itinerary, prev, nreq, last_writer>>

\* ParseItinerary as it would be if only the first stop were returned
ParseItineraryFirstStop(p) ==
    /\ pc[p] = "parse"
    /\ \E stops \in StopOutputs :
          LET output == [stops |-> stops] IN
          /\ hist' = [hist EXCEPT ![p].parses = @ + 1,
                                  ![p].parsed = Append(@, output)]
          /\ itinerary' = [itinerary EXCEPT ![p] =
                             [returned |-> TRUE,
                              stops |-> IF output.stops = << >> THEN << >>
                                        ELSE <<Head(output.stops)>>]]
    /\ pc' = [pc EXCEPT ![p] = "done"]
    /\ UNCHANGED <<store, req, src_i, all_attractions, places_index, iterations,
                   agent_response, err, prev, nreq, last_writer>>

\* output = program(agent_response=agent_response); return output.stops
\* (app.py:174-184)
ParseItinerary(p) ==
    /\ pc[p] = "parse"
    /\ \E stops \in StopOutputs :
          LET output == [stops |-> stops] IN
          /\ hist' = [hist EXCEPT ![p].parses = @ + 1,
                                  ![p].parsed = Append(@, output)]
          /\ itinerary' = [itinerary EXCEPT ![p] =
                             [returned |-> TRUE, stops |-> output.stops]]
    /\ pc' = [pc EXCEPT ![p] = "done"]
    /\ UNCHANGED <<store, req, src_i, all_attractions, places_index, iterations,
                   agent_response, err, prev, nreq, last_writer>>

\* the TravelItinerary program raises: the LLM output does not validate
\* (app.py:183)
ParseItineraryFail(p) ==
    /\ pc[p] = "parse"
    /\ Raise(p, "schema")
    /\ hist' = [hist EXCEPT ![p].parses = @ + 1, ![p].failures = @ + 1]
    /\ UNCHANGED <<store, req, src_i, all_attractions, places_index, iterations,
                   agent_response, itinerary, prev, nreq, last_writer>>

\* the form values main may pass (app.py:190-211): any group type
\* and, of the 24 hourly options, the two preselected ones in every
\* combination (start before, equal to and after end)
TimeChoices == {TimeOptions[DefaultStartIndex], TimeOptions[DefaultEndIndex]}
GroupChoices == {group_types[k] : k \in 1..Len(group_types)}

\* main: the button is pressed with some form values (app.py:212-213)
Button(p) ==
    \E city \in CityNames, g \in GroupChoices, s \in TimeChoices, e \in TimeChoices :
        generate_itinerary(p, city, g, s, e)

\* main: the button is pressed with the form as preselected (app.py:190-213)
ButtonDefaults(p) ==
    \E city \in CityNames :
        generate_itinerary(p, city, group_types[1],
                           TimeOptions[DefaultStartIndex], TimeOptions[DefaultEndIndex])

\* the cache step of generate_itinerary (app.py:115-126)
CacheStep(p) ==
    \/ Exists(p)
    \/ Load(p)
    \/ LoadFail(p)
    \/ FetchWiki(p)
    \/ FetchWikiFail(p)
    \/ FetchWeb(p)
    \/ FetchWebFail(p)
    \/ gen_attractions(p)
    \/ gen_attractionsFail(p)
    \/ BuildIndex(p)
    \/ BuildIndexFail(p)
    \/ Persist(p)
    \/ PersistFail(p)

\* the agent and the parse of its answer (app.py:170-184)
PlanStep(p) ==
    \/ AgentToolCall(p)
    \/ AgentAnswer(p)
    \/ AgentFail(p)
    \/ ParseItinerary(p)
    \/ ParseItineraryFail(p)

\* one session: requests one after the other
Next == Button(MainProc) \/ CacheStep(MainProc) \/ PlanStep(MainProc)

Spec == Init /\ [][Next]_vars

\* a session presses the button once
FirstButton(p) == pc[p] = "idle" /\ ButtonDefaults(p)

\* two sessions on the same working directory, one request each, followed
\* up to the end of the cache step
RaceNext == \E p \in Procs : FirstButton(p) \/ CacheStep(p)

SpecRace == Init /\ [][RaceNext]_vars

\* ------------------------------------------------------------------ claims
\* wiki_pages then web_pages: the order get_attractions reads the sources in
Sources(city) == cities[city].wiki_pages \o cities[city].web_pages

RECURSIVE Flatten(_)
Flatten(lists) ==
    IF lists = << >> THEN << >> ELSE Head(lists) \o Flatten(Tail(lists))

RECURSIVE SumLen(_)
SumLen(lists) ==
    IF lists = << >> THEN 0 ELSE Len(Head(lists)) + SumLen(Tail(lists))

Started(p) == pc[p] # "idle"

\* C1: a request that starts with the city's index directory present never
\* fetches a page nor calls gen_attractions, and the index its cache step
\* returns is the one the directory held; so when the previous request's cache
\* step returned an index too, both returned the same one.
C1_CacheFirstRead ==
    \A p \in Procs :
        (Started(p) /\ hist[p].at_start.state # "absent") =>
            /\ hist[p].fetches = 0
            /\ hist[p].extractions = 0
            /\ hist[p].hit \in {None, "hit"}
            /\ CacheReturned(p) => places_index[p] = hist[p].at_start.content
            /\ (CacheReturned(p) /\ prev[p].cache_returned)
                   => places_index[p] = prev[p].index

\* two consecutive cache hits, both returning the same two-node index
C1_Witness ==
    /\ pc[MainProc] = "done"
    /\ hist[MainProc].hit = "hit"
    /\ prev[MainProc].hit = "hit"
    /\ prev[MainProc].cache_returned
    /\ hist[MainProc].at_start.state = "complete"
    /\ Len(places_index[MainProc]) = 2
    /\ places_index[MainProc] = prev[MainProc].index

BuildPcs == {"wiki_fetch", "wiki_extract", "web_fetch", "web_extract"}

\* C2: when a fetch or an extraction raises during a build, nothing is
\* persisted (the directory is still absent), and the next request for the
\* city misses the cache, starts at the first source with an empty accumulator
\* and reads every source before it builds the index.
C2_FailFastBuild ==
    \A p \in Procs :
        /\ (pc[p] = "failed" /\ err[p].at \in BuildPcs) =>
              /\ store[Dir(p)].state = "absent"
              /\ ~hist[p].persisted
        /\ (prev[p].outcome = "failed" /\ prev[p].err.at \in BuildPcs) =>
              /\ hist[p].at_start.state = "absent"
              /\ hist[p].hit \in {None, "miss"}
              /\ (hist[p].hit = "miss" /\ hist[p].fetches = 0) =>
                    /\ pc[p] = FirstStep(p)
                    /\ src_i[p] = 1
                    /\ all_attractions[p] = << >>
                    /\ hist[p].results = << >>
              /\ pc[p] \in {"index", "persist"} =>
                    /\ hist[p].fetches = Len(Sources(req[p].city))
                    /\ Len(hist[p].results) = Len(Sources(req[p].city))

\* the fetch of the 2nd of the 3 web pages failed, and the next request has
\* read all five sources again
C2_Witness ==
    /\ prev[MainProc].err = [kind |-> "fetch", at |-> "web_fetch", i |-> 2]
    /\ pc[MainProc] = "index"
    /\ hist[MainProc].hit = "miss"
    /\ Len(hist[MainProc].results) = 5
    /\ store[Dir(MainProc)].state = "absent"

\* C3: the accumulator of get_attractions is the concatenation, in source
\* order (wiki pages, then web pages), of what gen_attractions returned for
\* each source; nothing is dropped, so its length is the sum of the lengths.
C3_SourceOrderNoDedup ==
    \A p \in Procs :
        Started(p) =>
            /\ all_attractions[p] = Flatten(hist[p].results)
            /\ Len(all_attractions[p]) = SumLen(hist[p].results)
            /\ \A k \in 1..Len(hist[p].results) :
                  hist[p].results[k] \in ExtractOutputs(Sources(req[p].city)[k])
            /\ (hist[p].hit = "miss" /\ pc[p] \in {"index", "persist", "agent"})
                  => Len(hist[p].results) = Len(Sources(req[p].city))

\* every source gave a record of the same name: all five are kept, in order
C3_Witness ==
    /\ pc[MainProc] = "index"
    /\ Len(all_attractions[MainProc]) = 5
    /\ \A k \in 1..5 :
          all_attractions[MainProc][k] = Attraction(Sources("Talinn")[k])

\* C4: once the cache step of a request that missed the cache has returned
\* (the agent is about to run, runs or has run), the city's directory holds
\* the complete index built from the whole accumulator.
C4_PersistBeforeUse ==
    \A p \in Procs :
        (hist[p].hit = "miss" /\ CacheReturned(p)) =>
            /\ hist[p].persisted
            /\ places_index[p] = places_nodes(all_attractions[p])
            /\ Len(hist[p].results) = Len(Sources(req[p].city))
            /\ store[Dir(p)] = Persisted(places_index[p])

\* a build of three records is on disk and the agent has not taken a step
C4_Witness ==
    /\ hist[MainProc].hit = "miss"
    /\ pc[MainProc] = "agent"
    /\ iterations[MainProc] = 0
    /\ Len(places_index[MainProc]) = 3
    /\ store[Dir(MainProc)].state = "complete"

\* C5: a request returns only after exactly one run of the TravelItinerary
\* program, made after agent.chat returned its answer, and the stops it
\* returns are that run's output.stops, however many tool calls the agent
\* made before it answered.
C5_TwoStagePlan ==
    \A p \in Procs :
        /\ hist[p].parses <= 1
        /\ hist[p].parses >= 1 =>
              /\ hist[p].agent_done
              /\ agent_response[p] \in AgentAnswers
        /\ itinerary[p].returned <=> pc[p] = "done"
        /\ pc[p] = "done" =>
              /\ hist[p].parses = 1
              /\ Len(hist[p].parsed) = 1
              /\ itinerary[p].stops = hist[p].parsed[1].stops

\* the agent answered at once, without a tool call, and two stops came back;
\* the request before it had answered after tool calls
C5_Witness ==
    /\ pc[MainProc] = "done"
    /\ iterations[MainProc] = 1
    /\ Len(itinerary[MainProc].stops) = 2
    /\ prev[MainProc].outcome = "done"
    /\ prev[MainProc].used_tools

\* how many sources the build has reached
SourcePos(p) ==
    CASE pc[p] \in {"wiki_fetch", "wiki_extract"} -> src_i[p]
      [] pc[p] \in {"web_fetch", "web_extract"} -> Len(wiki_pages(p)) + src_i[p]
      [] pc[p] = "failed" /\ err[p].at \in {"wiki_fetch", "wiki_extract"} -> err[p].i
      [] pc[p] = "failed" /\ err[p].at \in {"web_fetch", "web_extract"} ->
             Len(wiki_pages(p)) + err[p].i
      [] OTHER -> IF hist[p].hit = "miss" THEN Len(Sources(req[p].city)) ELSE 0

C6_State(p) ==
    /\ hist[p].failures <= 1
    /\ pc[p] = "failed" <=> hist[p].failures = 1
    /\ hist[p].parses <= 1
    /\ Started(p) =>
          /\ hist[p].fetches <= SourcePos(p)
          /\ hist[p].extractions <= SourcePos(p)
    /\ pc[p] = "failed" =>
          /\ err[p].kind # None
          /\ ~itinerary[p].returned
          /\ itinerary[p].stops = << >>
          /\ err[p].at \notin {"agent", "parse"} =>
                (iterations[p] = 0 /\ ~hist[p].agent_done)
          /\ err[p].at # "parse" => hist[p].parses = 0
          /\ err[p].at # "persist" => store[Dir(p)] = hist[p].at_start \/ hist[p].persisted

\* C6: the first external call of a request that raises ends the request: at
\* most one call raises per request, no call is made twice for the same
\* source or answer, a failed request takes no further step (the next thing
\* its session does is a new request), and it returns no stops.
C6_NoLocalRecovery ==
    [][\A p \in Procs :
          /\ C6_State(p)'
          /\ pc[p] = "failed" =>
                \/ pc'[p] = "exists"
                \/ /\ pc'[p] = "failed"
                   /\ hist'[p] = hist[p]
                   /\ itinerary'[p] = itinerary[p]
                   /\ places_index'[p] = places_index[p]]_vars

\* a request ended by the agent's non-convergence, after one ended by a fetch
C6_Witness ==
    /\ pc[MainProc] = "failed"
    /\ err[MainProc].kind = "reasoning"
    /\ iterations[MainProc] = MaxIterations
    /\ prev[MainProc].err.kind = "fetch"

\* C7: when two concurrent requests for the city both miss the cache, build
\* and persist, the directory ends up holding the index of whichever persisted
\* last, and neither request has raised.
C7_RaceOverwrite ==
    \A p, q \in Procs :
        (p # q /\ hist[p].persisted /\ hist[q].persisted) =>
            /\ hist[p].hit = "miss" /\ hist[q].hit = "miss"
            /\ last_writer \in Procs
            /\ store[Dir(p)] = Persisted(places_index[last_writer])
            /\ err[p] = NoErr /\ err[q] = NoErr
            /\ pc[p] = "agent" /\ pc[q] = "agent"

\* both requests built and persisted different indexes; the directory holds
\* the second one's and the first one's write is gone
C7_Witness ==
    /\ hist[1].hit = "miss" /\ hist[2].hit = "miss"
    /\ hist[1].persisted /\ hist[2].persisted
    /\ places_index[1] # places_index[2]
    /\ last_writer = 2
    /\ store[Dir(1)] = Persisted(places_index[2])
    /\ err[1] = NoErr /\ err[2] = NoErr
    /\ pc[1] = "agent" /\ pc[2] = "agent"

\* the exceptions the external calls raise
ExternalFailures == {"load", "fetch", "schema", "embedding", "persist", "reasoning"}

\* C8: whatever start_time and end_time are, a request fails only when an
\* external call raised; generate_itinerary itself rejects no time window.
C8_NoWindowCheck ==
    \A p \in Procs :
        Started(p) =>
            /\ req[p].start_time \in TimeChoices
            /\ req[p].end_time \in TimeChoices
            /\ pc[p] = "failed" =>
                  /\ hist[p].failures = 1
                  /\ err[p].kind \in ExternalFailures
            /\ hist[p].failures = 0 => pc[p] # "failed"

\* start_time = end_time, and the request returned stops
C8_Witness ==
    /\ pc[MainProc] = "done"
    /\ req[MainProc].start_time = req[MainProc].end_time
    /\ Len(itinerary[MainProc].stops) = 2

\* C9: an index directory that exists holds the complete index of one
\* successful build.
C9_ExistsImpliesComplete ==
    \A d \in IndexDirs :
        store[d].state # "absent" => store[d].state = "complete"

\* C10: when the previous request persisted its build and then failed in the
\* agent or in the parse of its answer, the directory still holds that index,
\* and this request hits the cache: no page fetched, no gen_attractions call.
C10_CacheSurvivesFailure ==
    \A p \in Procs :
        /\ (hist[p].persisted /\ pc[p] = "failed") =>
              store[Dir(p)] = Persisted(places_index[p])
        /\ (prev[p].persisted /\ prev[p].outcome = "failed") =>
              /\ prev[p].err.at \in {"agent", "parse"}
              /\ store[Dir(p)] = Persisted(prev[p].index)
              /\ hist[p].at_start = Persisted(prev[p].index)
              /\ hist[p].hit \in {None, "hit"}
              /\ hist[p].fetches = 0
              /\ hist[p].extractions = 0
              /\ CacheReturned(p) => places_index[p] = prev[p].index

\* the previous request built two records, persisted and failed in the
\* parse; this one has loaded the same index
C10_Witness ==
    /\ prev[MainProc].persisted
    /\ prev[MainProc].err.at = "parse"
    /\ Len(prev[MainProc].index) = 2
    /\ hist[MainProc].hit = "hit"
    /\ pc[MainProc] = "agent"
    /\ places_index[MainProc] = prev[MainProc].index
====
